---- MODULE Spec2Model ----
(***************************************************************************)
(* Bookstore backend: the shopping-cart route handlers (GET, POST, PUT,    *)
(* DELETE on /api/cart) over the in-memory `carts` object.                 *)
(*                                                                         *)
(* JSON / query values are tagged records so that values of different      *)
(* JavaScript types can be compared:                                       *)
(*   Str(s)  a string          Num(n)  the integer number n                *)
(*   Half(n) the number n+0.5  Null    null       Undefined  (absent key)  *)
(* Array positions are JavaScript positions (0-based); -1 is "not found".  *)
(***************************************************************************)
EXTENDS Integers, Sequences, FiniteSets, TLC

VARIABLES
    carts,      \* the in-memory store: userId -> array of line items
    req,        \* the request being answered (NoRequest between requests)
    resp,       \* the response produced for req (NoResponse between requests)
    watch,      \* history: one line item followed from the add that created it
    gone,       \* history: one removed line item followed to its next add
    added,      \* history: per user, the products held, in the order of their
                \* latest add from absent
    books,      \* the static book dataset
    listed,     \* the response of GET /api/books (NoResponse before it)
    slots,      \* the handler runs in flight at once, each before or after
                \* its await
    round       \* history: the store when all slots were last idle, and whether
                \* two runs have been in flight at once since

vars == <<carts, req, resp, watch, gone, added, books, listed, slots, round>>

----------------------------------------------------------------------------
(* Bounds of the model *)

\* most units (sum of the quantities of all line items) the store may hold, and
\* the largest quantity a request carries
MaxUnits == 3

----------------------------------------------------------------------------
(* JavaScript values *)

Str(s) == [t |-> "string", s |-> s]
Num(n) == [t |-> "number", n |-> n, frac |-> FALSE]
Half(n) == [t |-> "number", n |-> n, frac |-> TRUE]
Null == [t |-> "null"]
Undefined == [t |-> "undefined"]

\* the value a request body that is not JSON stands for (request.json() throws)
Malformed == [t |-> "malformed"]

\* property names every object literal inherits from Object.prototype
ObjectPrototypeKeys ==
    {"constructor", "__proto__", "toString", "toLocaleString", "valueOf",
     "hasOwnProperty", "isPrototypeOf", "propertyIsEnumerable"}

\* carts[userId]: an own property is a cart (an array), an inherited one is a
\* function or object that is no array, anything else is undefined
Lookup(obj, key) ==
    IF key \in DOMAIN obj THEN [t |-> "array", a |-> obj[key]]
    ELSE IF key \in ObjectPrototypeKeys THEN [t |-> "inherited"]
    ELSE Undefined

\* JavaScript truthiness of a looked-up value (arrays, even empty, are truthy)
Truthy(v) == v.t \in {"array", "inherited"}

\* mutant: a request without a userId gets a cart of its own
UserIdOfGuest(param) ==
    IF param.t = "string" /\ param.s # "" THEN param.s ELSE "guest"

\* searchParams.get('userId') || 'default-user'
UserIdOf(param) ==
    IF param.t = "string" /\ param.s # "" THEN param.s ELSE "default-user"

----------------------------------------------------------------------------
(* zod schemas: the list of the paths of the fields that fail, in schema order *)

StringMin1(v) == v.t = "string" /\ v.s # ""
IntMin(v, k) == v.t = "number" /\ ~v.frac /\ v.n >= k
NumberMin(v, k) == v.t = "number" /\ v.n >= k

Field(body, name) == IF name \in DOMAIN body THEN body[name] ELSE Undefined

IsObject(body) == body.t = "object"

\* mutant: the add schema with the update schema's lower bound on quantity
CartItemSchemaMin0(body) ==
    IF ~IsObject(body) THEN << "<root>" >>
    ELSE (IF StringMin1(Field(body, "productId")) THEN << >> ELSE << "productId" >>)
      \o (IF IntMin(Field(body, "quantity"), 0) THEN << >> ELSE << "quantity" >>)
      \o (IF NumberMin(Field(body, "price"), 0) THEN << >> ELSE << "price" >>)

CartItemSchema(body) ==
    IF ~IsObject(body) THEN << "<root>" >>
    ELSE (IF StringMin1(Field(body, "productId")) THEN << >> ELSE << "productId" >>)
      \o (IF IntMin(Field(body, "quantity"), 1) THEN << >> ELSE << "quantity" >>)
      \o (IF NumberMin(Field(body, "price"), 0) THEN << >> ELSE << "price" >>)

UpdateCartItemSchema(body) ==
    IF ~IsObject(body) THEN << "<root>" >>
    ELSE (IF StringMin1(Field(body, "productId")) THEN << >> ELSE << "productId" >>)
      \o (IF IntMin(Field(body, "quantity"), 0) THEN << >> ELSE << "quantity" >>)

DeleteCartItemSchema(query) ==
    IF StringMin1(Field(query, "itemId")) THEN << >> ELSE << "itemId" >>

----------------------------------------------------------------------------
(* Array helpers *)

\* Array.prototype.findIndex on productId: first position, or -1
RECURSIVE FindFrom(_, _, _)
FindFrom(cart, pid, i) ==
    IF i > Len(cart) THEN -1
    ELSE IF cart[i].productId = pid THEN i - 1
    ELSE FindFrom(cart, pid, i + 1)

FindIndex(cart, pid) == FindFrom(cart, pid, 1)

\* Array.prototype.splice(index, 1)
Splice(cart, index) ==
    [j \in 1..(Len(cart) - 1) |-> IF j <= index THEN cart[j] ELSE cart[j + 1]]

\* cartItems.reduce((sum, item) => sum + item.price * item.quantity, 0)
RECURSIVE Reduce(_, _, _)
Reduce(cart, i, sum) ==
    IF i > Len(cart) THEN sum
    ELSE Reduce(cart, i + 1, sum + cart[i].price * cart[i].quantity)

TotalPrice(cart) == Reduce(cart, 1, 0)

----------------------------------------------------------------------------
(* Requests and responses *)

NoRequest == [method |-> "none"]
NoResponse == [status |-> 0]

\* NextResponse.json(body, {status})
Json(status, body) == [status |-> status, body |-> body]

\* the catch blocks: a ZodError is answered 400 with its issues
InvalidInput(issues) == Json(400, [error |-> "Invalid input", details |-> issues])

\* the catch blocks: any other exception is answered 500
ServerError(error, message) == Json(500, [error |-> error, details |-> message])

NotFound(error) == Json(404, [error |-> error])

\* the validated data of a body that passed CartItemSchema
CartItemData(body) ==
    [productId |-> body.productId.s, quantity |-> body.quantity.n,
     price |-> body.price.n]

\* the validated data of a body that passed UpdateCartItemSchema
UpdateData(body) ==
    [productId |-> body.productId.s, quantity |-> body.quantity.n]

----------------------------------------------------------------------------
(* The store mutations of the handlers *)

\* mutant: the item is pushed without looking for an existing one
AddToCartAlwaysPush(store, userId, data) ==
    LET created == IF ~Truthy(Lookup(store, userId))
                   THEN (userId :> << >>) @@ store
                   ELSE store
    IN  [created EXCEPT ![userId] =
            Append(@, [productId |-> data.productId,
                       quantity |-> data.quantity,
                       price |-> data.price])]

\* mutant: a new line item is put at the front (unshift) instead of the end
AddToCartUnshift(store, userId, data) ==
    LET created == IF ~Truthy(Lookup(store, userId))
                   THEN (userId :> << >>) @@ store
                   ELSE store
        existingItem == FindIndex(created[userId], data.productId)
    IN  IF existingItem # -1
        THEN [created EXCEPT ![userId][existingItem + 1].quantity =
                                  @ + data.quantity]
        ELSE [created EXCEPT ![userId] =
                 << [productId |-> data.productId,
                     quantity |-> data.quantity,
                     price |-> data.price] >> \o @]

\* mutant: a repeated add also applies the new price
AddToCartNewPrice(store, userId, data) ==
    LET created == IF ~Truthy(Lookup(store, userId))
                   THEN (userId :> << >>) @@ store
                   ELSE store
        existingItem == FindIndex(created[userId], data.productId)
    IN  IF existingItem # -1
        THEN [created EXCEPT ![userId][existingItem + 1].quantity =
                                  @ + data.quantity,
                             ![userId][existingItem + 1].price = data.price]
        ELSE [created EXCEPT ![userId] =
                 Append(@, [productId |-> data.productId,
                            quantity |-> data.quantity,
                            price |-> data.price])]

\* POST: create the cart if the user has none, then merge or append the item
AddToCart(store, userId, data) ==
    LET created == IF ~Truthy(Lookup(store, userId))
                   THEN (userId :> << >>) @@ store
                   ELSE store
        existingItem == FindIndex(created[userId], data.productId)
    IN  IF existingItem # -1
        THEN [created EXCEPT ![userId][existingItem + 1].quantity =
                                  @ + data.quantity]
        ELSE [created EXCEPT ![userId] =
                 Append(@, [productId |-> data.productId,
                            quantity |-> data.quantity,
                            price |-> data.price])]

\* mutant: quantity 0 is stored like any other quantity
UpdateInCartZeroKept(store, userId, itemIndex, data) ==
    [store EXCEPT ![userId][itemIndex + 1].quantity = data.quantity]

\* mutant: the quantity is added to the old one
UpdateInCartIncrement(store, userId, itemIndex, data) ==
    IF data.quantity = 0
    THEN [store EXCEPT ![userId] = Splice(@, itemIndex)]
    ELSE [store EXCEPT ![userId][itemIndex + 1].quantity = @ + data.quantity]

\* PUT, past the not-found returns: quantity 0 removes, otherwise it is set
UpdateInCart(store, userId, itemIndex, data) ==
    IF data.quantity = 0
    THEN [store EXCEPT ![userId] = Splice(@, itemIndex)]
    ELSE [store EXCEPT ![userId][itemIndex + 1].quantity = data.quantity]

\* mutant: splice(itemIndex) without a count drops the rest of the array too
RemoveFromCartTruncate(store, userId, itemIndex) ==
    [store EXCEPT ![userId] = SubSeq(@, 1, itemIndex)]

\* mutant: a cart that the remove empties is deleted from the store
RemoveFromCartDropsEmpty(store, userId, itemIndex) ==
    IF Len(store[userId]) = 1
    THEN [u \in DOMAIN store \ {userId} |-> store[u]]
    ELSE [store EXCEPT ![userId] = Splice(@, itemIndex)]

\* mutant: the line item is kept with quantity 0 instead of being deleted
RemoveFromCartSoft(store, userId, itemIndex) ==
    [store EXCEPT ![userId][itemIndex + 1].quantity = 0]

\* DELETE, past the not-found returns
RemoveFromCart(store, userId, itemIndex) ==
    [store EXCEPT ![userId] = Splice(@, itemIndex)]

\* GET: the response body for the looked-up cart
CartSummary(cartItems) ==
    [items |-> cartItems,
     totalItems |-> Len(cartItems),
     totalPrice |-> TotalPrice(cartItems)]

----------------------------------------------------------------------------
(* The handlers: the store and the response each leaves behind *)

Outcome(store, response) == [store |-> store, resp |-> response]

\* mutant: listing gives a user who has no cart an empty one
GetOutcomeCreates(store, param) ==
    LET userId == UserIdOf(param)
        found == Lookup(store, userId)
    IN  IF found.t = "inherited"
        THEN Outcome(store, ServerError("Failed to fetch cart items", "TypeError"))
        ELSE IF Truthy(found)
        THEN Outcome(store, Json(200, CartSummary(found.a)))
        ELSE Outcome((userId :> << >>) @@ store, Json(200, CartSummary(<< >>)))

\* export async function GET(request)
GetOutcome(store, param) ==
    LET userId == UserIdOf(param)
        found == Lookup(store, userId)
    IN  IF found.t = "inherited"
        THEN \* cartItems.reduce is not a function
             Outcome(store, ServerError("Failed to fetch cart items", "TypeError"))
        ELSE LET cartItems == IF Truthy(found) THEN found.a ELSE << >>
             IN  Outcome(store, Json(200, CartSummary(cartItems)))

\* mutant: the cart is created before the body is read and validated
PostOutcomeCartFirst(store, param, body) ==
    LET userId == UserIdOf(param)
        issues == CartItemSchema(body)
        created == IF ~Truthy(Lookup(store, userId))
                   THEN (userId :> << >>) @@ store
                   ELSE store
    IN  IF body = Malformed
        THEN Outcome(created, ServerError("Failed to add item to cart", "SyntaxError"))
        ELSE IF issues # << >>
        THEN Outcome(created, InvalidInput(issues))
        ELSE IF Lookup(store, userId).t = "inherited"
        THEN Outcome(store, ServerError("Failed to add item to cart", "TypeError"))
        ELSE Outcome(AddToCart(store, userId, CartItemData(body)),
                     Json(200, [message |-> "Item added to cart successfully",
                                item |-> CartItemData(body)]))

\* export async function POST(request)
PostOutcome(store, param, body) ==
    LET userId == UserIdOf(param)
        issues == CartItemSchema(body)
    IN  IF body = Malformed
        THEN Outcome(store, ServerError("Failed to add item to cart", "SyntaxError"))
        ELSE IF issues # << >>
        THEN Outcome(store, InvalidInput(issues))
        ELSE IF Lookup(store, userId).t = "inherited"
        THEN \* carts[userId].find is not a function
             Outcome(store, ServerError("Failed to add item to cart", "TypeError"))
        ELSE Outcome(AddToCart(store, userId, CartItemData(body)),
                     Json(200, [message |-> "Item added to cart successfully",
                                item |-> CartItemData(body)]))

\* mutant: the cart is looked up before the body is validated
PutOutcomeCartFirst(store, param, body) ==
    LET userId == UserIdOf(param)
        issues == UpdateCartItemSchema(body)
        found == Lookup(store, userId)
    IN  IF body = Malformed
        THEN Outcome(store, ServerError("Failed to update cart item", "SyntaxError"))
        ELSE IF ~Truthy(found)
        THEN Outcome(store, NotFound("Cart not found"))
        ELSE IF issues # << >>
        THEN Outcome(store, InvalidInput(issues))
        ELSE IF found.t = "inherited"
        THEN Outcome(store, ServerError("Failed to update cart item", "TypeError"))
        ELSE LET data == UpdateData(body)
                 itemIndex == FindIndex(found.a, data.productId)
             IN  IF itemIndex = -1
                 THEN Outcome(store, NotFound("Item not found in cart"))
                 ELSE Outcome(UpdateInCart(store, userId, itemIndex, data),
                              Json(200, [message |-> "Cart item updated successfully",
                                         item |-> data]))

\* export async function PUT(request)
PutOutcome(store, param, body) ==
    LET userId == UserIdOf(param)
        issues == UpdateCartItemSchema(body)
        found == Lookup(store, userId)
    IN  IF body = Malformed
        THEN Outcome(store, ServerError("Failed to update cart item", "SyntaxError"))
        ELSE IF issues # << >>
        THEN Outcome(store, InvalidInput(issues))
        ELSE IF ~Truthy(found)
        THEN Outcome(store, NotFound("Cart not found"))
        ELSE IF found.t = "inherited"
        THEN \* carts[userId].findIndex is not a function
             Outcome(store, ServerError("Failed to update cart item", "TypeError"))
        ELSE LET data == UpdateData(body)
                 itemIndex == FindIndex(found.a, data.productId)
             IN  IF itemIndex = -1
                 THEN Outcome(store, NotFound("Item not found in cart"))
                 ELSE Outcome(UpdateInCart(store, userId, itemIndex, data),
                              Json(200, [message |-> "Cart item updated successfully",
                                         item |-> data]))

\* export async function DELETE(request)
DeleteOutcome(store, param, itemParam) ==
    LET userId == UserIdOf(param)
        issues == DeleteCartItemSchema([itemId |-> itemParam])
        found == Lookup(store, userId)
    IN  IF issues # << >>
        THEN Outcome(store, InvalidInput(issues))
        ELSE IF ~Truthy(found)
        THEN Outcome(store, NotFound("Cart not found"))
        ELSE IF found.t = "inherited"
        THEN \* carts[userId].findIndex is not a function
             Outcome(store, ServerError("Failed to remove item from cart", "TypeError"))
        ELSE LET itemIndex == FindIndex(found.a, itemParam.s)
             IN  IF itemIndex = -1
                 THEN Outcome(store, NotFound("Item not found in cart"))
                 ELSE Outcome(RemoveFromCart(store, userId, itemIndex),
                              Json(200, [message |-> "Item removed from cart successfully",
                                         itemId |-> itemParam.s]))

----------------------------------------------------------------------------
(* The requests the model sends *)

\* the userId query parameter: absent, empty, the default's own name, another
\* user, and a name the store object inherits
UserIdParams ==
    {Null, Str(""), Str("default-user"), Str("u1"), Str("constructor")}

ProductIds == {"b1", "b2"}
Prices == {0, 10}

AddBody(pid, q, price) ==
    [t |-> "object", productId |-> pid, quantity |-> q, price |-> price]

UpdateBody(pid, q) == [t |-> "object", productId |-> pid, quantity |-> q]

ValidAddBodies ==
    {AddBody(Str(p), Num(q), Num(c)) : p \in ProductIds, q \in 1..MaxUnits, c \in Prices}

\* one field wrong or missing at a time, an empty object, null, and no JSON at all
InvalidAddBodies ==
         {AddBody(v, Num(1), Num(10)) : v \in {Str(""), Num(1)}}
    \cup {AddBody(Str("b1"), v, Num(10)) : v \in {Num(0), Num(-1), Half(1), Str("1")}}
    \cup {AddBody(Str("b1"), Num(1), v) : v \in {Num(-1), Str("10")}}
    \cup {[t |-> "object", quantity |-> Num(1), price |-> Num(10)],
          [t |-> "object", productId |-> Str("b1"), price |-> Num(10)],
          [t |-> "object", productId |-> Str("b1"), quantity |-> Num(1)],
          [t |-> "object"], Null}

ValidUpdateBodies ==
    {UpdateBody(Str(p), Num(q)) : p \in ProductIds, q \in 0..MaxUnits}

InvalidUpdateBodies ==
         {UpdateBody(v, Num(1)) : v \in {Str(""), Num(1)}}
    \cup {UpdateBody(Str("b1"), v) : v \in {Num(-1), Half(1), Str("1")}}
    \cup {[t |-> "object", quantity |-> Num(1)],
          [t |-> "object", productId |-> Str("b1")],
          [t |-> "object"], Null}

\* the itemId query parameter: searchParams.get gives null when it is absent
ItemIdParams == {Str(p) : p \in ProductIds} \cup {Str(""), Null}

\* the cap that keeps quantities, hence the state space, finite
RECURSIVE Units(_, _)
Units(cart, i) ==
    IF i > Len(cart) THEN 0 ELSE cart[i].quantity + Units(cart, i + 1)

RECURSIVE StoreUnits(_, _)
StoreUnits(store, users) ==
    IF users = {} THEN 0
    ELSE LET u == CHOOSE x \in users : TRUE
         IN  Units(store[u], 1) + StoreUnits(store, users \ {u})

QuantitiesBounded(store) == StoreUnits(store, DOMAIN store) <= MaxUnits

----------------------------------------------------------------------------
(* Actions *)

Init ==
    /\ carts = << >>
    /\ req = NoRequest
    /\ resp = NoResponse
    /\ watch = [on |-> FALSE]
    /\ gone = [on |-> FALSE]
    /\ added = << >>
    /\ books = << >>
    /\ listed = NoResponse
    /\ slots = << >>
    /\ round = [base |-> << >>, overlap |-> FALSE]

Answer(request, outcome) ==
    /\ req = NoRequest
    /\ QuantitiesBounded(outcome.store)
    /\ req' = request
    /\ carts' = outcome.store
    /\ resp' = outcome.resp

GET ==
    \E param \in UserIdParams :
        Answer([method |-> "GET", userId |-> param],
               GetOutcome(carts, param))

POST ==
    \E param \in UserIdParams,
       body \in ValidAddBodies \cup InvalidAddBodies \cup {Malformed} :
        Answer([method |-> "POST", userId |-> param, body |-> body],
               PostOutcome(carts, param, body))

PUT ==
    \E param \in UserIdParams,
       body \in ValidUpdateBodies \cup InvalidUpdateBodies \cup {Malformed} :
        Answer([method |-> "PUT", userId |-> param, body |-> body],
               PutOutcome(carts, param, body))

DELETE ==
    \E param \in UserIdParams, itemParam \in ItemIdParams :
        Answer([method |-> "DELETE", userId |-> param, itemId |-> itemParam],
               DeleteOutcome(carts, param, itemParam))

\* the response has been sent; the server waits for the next request
Done ==
    /\ req # NoRequest
    /\ req' = NoRequest
    /\ resp' = NoResponse
    /\ UNCHANGED carts

\* the history variables, and the book catalog, which the cart route leaves alone
history == <<watch, gone, added, books, listed, slots, round>>

Next ==
    \/ GET /\ UNCHANGED history
    \/ POST /\ UNCHANGED history
    \/ PUT /\ UNCHANGED history
    \/ DELETE /\ UNCHANGED history
    \/ Done /\ UNCHANGED history

Spec == Init /\ [][Next]_vars

----------------------------------------------------------------------------
(* The same program with the history variable switched on: `watch` follows *)
(* one line item, picked freely among those an add creates, and records    *)
(* the add that created it and the next add of the same product; any other *)
(* successful update or remove of that product ends the watch.             *)

Positions(cart, pid) == {i \in 1..Len(cart) : cart[i].productId = pid}

Holds(store, userId, pid) ==
    userId \in DOMAIN store /\ Positions(store[userId], pid) # {}

Succeeded(request, response, methods) ==
    request.method \in methods /\ response.status = 200

Target(request) ==
    IF request.method = "DELETE" THEN request.itemId.s
    ELSE request.body.productId.s

WatchNext(w, store, request, response) ==
    IF ~Succeeded(request, response, {"POST", "PUT", "DELETE"}) THEN {w}
    ELSE LET u == UserIdOf(request.userId)
             p == Target(request)
         IN  IF w.on /\ w.userId = u /\ w.productId = p
             THEN IF request.method = "POST" /\ w.adds = 1
                  THEN {[w EXCEPT !.adds = 2,
                                  !.quantity2 = request.body.quantity.n,
                                  !.price2 = request.body.price.n]}
                  ELSE {[on |-> FALSE]}
             ELSE IF request.method = "POST" /\ ~Holds(store, u, p)
             THEN {w, [on |-> TRUE, userId |-> u, productId |-> p, adds |-> 1,
                       quantity1 |-> request.body.quantity.n,
                       price1 |-> request.body.price.n,
                       quantity2 |-> 0, price2 |-> 0]}
             ELSE {w}

Watched ==
    /\ watch' \in WatchNext(watch, carts, req', resp')
    /\ UNCHANGED <<gone, added, books, listed, slots, round>>

NextH ==
    \/ GET /\ Watched
    \/ POST /\ Watched
    \/ PUT /\ Watched
    \/ DELETE /\ Watched
    \/ Done /\ UNCHANGED history

SpecH == Init /\ [][NextH]_vars

----------------------------------------------------------------------------
(* The same program with the other two history variables switched on.      *)
(* `gone` follows one line item, picked freely among those a remove or an  *)
(* update to 0 deletes, to the next add of the same product, and ends at   *)
(* the next successful request on that product after it. `added` lists,    *)
(* per user, the products an add pushed and no removal deleted since.      *)

Removed(request, response) ==
    \/ Succeeded(request, response, {"DELETE"})
    \/ Succeeded(request, response, {"PUT"}) /\ request.body.quantity.n = 0

GoneNext(g, store, request, response) ==
    IF ~Succeeded(request, response, {"POST", "PUT", "DELETE"}) THEN {g}
    ELSE LET u == UserIdOf(request.userId)
             p == Target(request)
         IN  IF g.on /\ g.userId = u /\ g.productId = p
             THEN IF request.method = "POST" /\ ~g.back
                  THEN {[g EXCEPT !.back = TRUE,
                                  !.quantity = request.body.quantity.n,
                                  !.price = request.body.price.n]}
                  ELSE {[on |-> FALSE]}
             ELSE IF Removed(request, response) /\ Holds(store, u, p)
             THEN LET i == CHOOSE k \in Positions(store[u], p) : TRUE
                  IN  {g, [on |-> TRUE, userId |-> u, productId |-> p,
                           oldPrice |-> store[u][i].price,
                           back |-> FALSE, quantity |-> 0, price |-> 0]}
             ELSE {g}

Without(seq, p) ==
    LET Other(x) == x # p IN SelectSeq(seq, Other)

AddedNext(a, store, request, response) ==
    IF ~Succeeded(request, response, {"POST", "PUT", "DELETE"}) THEN a
    ELSE LET u == UserIdOf(request.userId)
             p == Target(request)
             mine == IF u \in DOMAIN a THEN a[u] ELSE << >>
         IN  IF request.method = "POST" /\ ~Holds(store, u, p)
             THEN (u :> Append(mine, p)) @@ a
             ELSE IF Removed(request, response)
             THEN (u :> Without(mine, p)) @@ a
             ELSE a

Recorded ==
    /\ gone' \in GoneNext(gone, carts, req', resp')
    /\ added' = AddedNext(added, carts, req', resp')
    /\ UNCHANGED <<watch, books, listed, slots, round>>

NextG ==
    \/ GET /\ Recorded
    \/ POST /\ Recorded
    \/ PUT /\ Recorded
    \/ DELETE /\ Recorded
    \/ Done /\ UNCHANGED history

SpecG == Init /\ [][NextG]_vars

----------------------------------------------------------------------------
(* Handler runs in flight at once. A run is started on a slot and goes on  *)
(* to its first await: POST and PUT await request.json() right after they  *)
(* took the userId from the URL, before they touch the store; GET and      *)
(* DELETE await nothing and are over at once. What follows the await runs  *)
(* to the end without a break, on the store as it is by then.              *)

\* what the handler of a request leaves, from a given store
OutcomeOf(store, request) ==
    CASE request.method = "GET" -> GetOutcome(store, request.userId)
      [] request.method = "POST" -> PostOutcome(store, request.userId, request.body)
      [] request.method = "PUT" -> PutOutcome(store, request.userId, request.body)
      [] request.method = "DELETE" ->
             DeleteOutcome(store, request.userId, request.itemId)

Slots == {1, 2}

\* the requests sent at once: all for one userId
ConcurrentRequests ==
         {[method |-> "GET", userId |-> Str("u1")]}
    \cup {[method |-> "POST", userId |-> Str("u1"), body |-> b] :
             b \in ValidAddBodies \cup {AddBody(Str("b1"), Num(0), Num(10))}}
    \cup {[method |-> "PUT", userId |-> Str("u1"), body |-> b] :
             b \in ValidUpdateBodies \cup {UpdateBody(Str("b1"), Num(-1))}}
    \cup {[method |-> "DELETE", userId |-> Str("u1"), itemId |-> Str(p)] :
             p \in ProductIds}

Awaits(request) == request.method \in {"POST", "PUT"}

Pc(slot) == IF slot \in DOMAIN slots THEN slots[slot].pc ELSE "idle"

\* mutant: the handler works on the store it saw before the await
StoreAfterAwaitStale(live, before) == before

\* the store the code after the await reads and writes: carts as it is then
StoreAfterAwait(live, before) == live

\* a handler is called and runs to its await, or to its end when it has none
Receive(slot, request) ==
    /\ Pc(slot) = "idle"
    /\ IF Awaits(request)
       THEN /\ slots' = (slot :> [pc |-> "awaiting", request |-> request]) @@ slots
            /\ UNCHANGED carts
       ELSE LET outcome == OutcomeOf(carts, request)
            IN  /\ QuantitiesBounded(outcome.store)
                /\ carts' = outcome.store
                /\ slots' = (slot :> [pc |-> "done", request |-> request,
                                      status |-> outcome.resp.status]) @@ slots
    /\ round' = [round EXCEPT !.overlap =
                    @ \/ \E other \in Slots \ {slot} : Pc(other) = "awaiting"]
    /\ UNCHANGED <<req, resp, watch, gone, added, books, listed>>

\* request.json() has resolved: the rest of the handler runs
Resume(slot) ==
    /\ Pc(slot) = "awaiting"
    /\ LET outcome == OutcomeOf(StoreAfterAwait(carts, round.base),
                                slots[slot].request)
       IN  /\ QuantitiesBounded(outcome.store)
           /\ carts' = outcome.store
           /\ slots' = [slots EXCEPT ![slot] =
                           [pc |-> "done", request |-> @.request,
                            status |-> outcome.resp.status]]
    /\ UNCHANGED <<req, resp, watch, gone, added, books, listed, round>>

\* all runs are over: the slots are free again
Settle ==
    /\ slots # << >>
    /\ \A slot \in DOMAIN slots : slots[slot].pc = "done"
    /\ slots' = << >>
    /\ round' = [base |-> carts, overlap |-> FALSE]
    /\ UNCHANGED <<carts, req, resp, watch, gone, added, books, listed>>

NextC ==
    \/ \E slot \in Slots, request \in ConcurrentRequests : Receive(slot, request)
    \/ \E slot \in Slots : Resume(slot)
    \/ Settle

SpecC == Init /\ [][NextC]_vars

----------------------------------------------------------------------------
(* The book catalog: getAllBooks over a dataset drawn from small sets *)

\* most books in the dataset, and most entries in a genre array
MaxBooks == 2
MaxGenres == 2

\* an array value
Arr(a) == [t |-> "array", a |-> a]

\* Array.prototype.join(separator) on an array of strings
RECURSIVE Join(_, _, _)
Join(a, separator, i) ==
    IF i > Len(a) THEN ""
    ELSE IF i = Len(a) THEN a[i]
    ELSE a[i] \o separator \o Join(a, separator, i + 1)

\* mutant: join() with its default separator
GenreOfDefaultJoin(genre) ==
    IF genre.t = "array" THEN Str(Join(genre.a, ",", 1)) ELSE genre

\* Array.isArray(book.genre) ? book.genre.join(', ') : book.genre
GenreOf(genre) ==
    IF genre.t = "array" THEN Str(Join(genre.a, ", ", 1)) ELSE genre

\* books.map(book => ({...book, genre: ...}))
getAllBooks(dataset) ==
    [i \in 1..Len(dataset) |-> [dataset[i] EXCEPT !.genre = GenreOf(@)]]

GenreNames == {"Fiction", "Drama"}

RECURSIVE SeqsUpTo(_, _)
SeqsUpTo(S, n) ==
    IF n = 0 THEN {<< >>}
    ELSE LET shorter == SeqsUpTo(S, n - 1)
         IN  shorter \cup {Append(q, x) : q \in shorter, x \in S}

\* a genre is one string (possibly empty, possibly holding a comma itself) or
\* an array of strings
Genres ==
    {Str(g) : g \in {"Fiction", "Sci-Fi, Space", ""}}
        \cup {Arr(a) : a \in SeqsUpTo(GenreNames, MaxGenres)}

Titles == {"Dune", "Emma"}

BookRecords == {[title |-> t, genre |-> g] : t \in Titles, g \in Genres}

\* the datasets: book i has id i
Datasets ==
    {[i \in 1..Len(d) |-> [id |-> i, title |-> d[i].title, genre |-> d[i].genre]] :
        d \in SeqsUpTo(BookRecords, MaxBooks)}

InitBooks ==
    /\ carts = << >>
    /\ req = NoRequest
    /\ resp = NoResponse
    /\ watch = [on |-> FALSE]
    /\ gone = [on |-> FALSE]
    /\ added = << >>
    /\ books \in Datasets
    /\ listed = NoResponse
    /\ slots = << >>
    /\ round = [base |-> << >>, overlap |-> FALSE]

\* GET /api/books
GETBooks ==
    /\ listed = NoResponse
    /\ listed' = Json(200, getAllBooks(books))
    /\ UNCHANGED <<carts, req, resp, watch, gone, added, books, slots, round>>

NextBooks == GETBooks

SpecBooks == InitBooks /\ [][NextBooks]_vars

----------------------------------------------------------------------------
(* Claims *)

\* what a request addresses
User(request) == UserIdOf(request.userId)

\* C1: in every reachable state every cart holds at most one line item per
\* distinct productId
C1_OneLinePerProduct ==
    \A u \in DOMAIN carts :
        \A i, j \in 1..Len(carts[u]) :
            carts[u][i].productId = carts[u][j].productId => i = j

\* C1 witness: an add of a product the cart already held has just been merged
\* into a cart of two line items
C1_Witness ==
    /\ Succeeded(req, resp, {"POST"})
    /\ Len(carts[User(req)]) = 2
    /\ \E i \in Positions(carts[User(req)], Target(req)) :
           carts[User(req)][i].quantity > req.body.quantity.n

\* C2: two successful adds of a product that was absent, (q1, price1) then
\* (q2, price2), with no update or remove of it in between, leave exactly one
\* line item for it, with quantity q1+q2 and price price1
C2_TwoAddsMerge ==
    (watch.on /\ watch.adds = 2) =>
        /\ watch.userId \in DOMAIN carts
        /\ Cardinality(Positions(carts[watch.userId], watch.productId)) = 1
        /\ \A i \in Positions(carts[watch.userId], watch.productId) :
               /\ carts[watch.userId][i].quantity = watch.quantity1 + watch.quantity2
               /\ carts[watch.userId][i].price = watch.price1

\* C2 witness: the second add, of another quantity at another price, has just
\* been answered
C2_Witness ==
    /\ watch.on /\ watch.adds = 2
    /\ Succeeded(req, resp, {"POST"})
    /\ User(req) = watch.userId /\ Target(req) = watch.productId
    /\ watch.price1 # watch.price2
    /\ watch.quantity1 # watch.quantity2

\* what the claims call a schema violation, field by field
BadString(body, name) ==
    \/ name \notin DOMAIN body
    \/ body[name].t # "string"
    \/ body[name].s = ""

BadInteger(body, name, least) ==
    \/ name \notin DOMAIN body
    \/ body[name].t # "number"
    \/ body[name].frac
    \/ body[name].n < least

\* for integers n and least, n + 0.5 < least exactly when n < least
BadNumber(body, name, least) ==
    \/ name \notin DOMAIN body
    \/ body[name].t # "number"
    \/ body[name].n < least

BadAdd(body) ==
    /\ body # Malformed
    /\ \/ body.t # "object"
       \/ BadString(body, "productId")
       \/ BadInteger(body, "quantity", 1)
       \/ BadNumber(body, "price", 0)

BadUpdate(body) ==
    /\ body # Malformed
    /\ \/ body.t # "object"
       \/ BadString(body, "productId")
       \/ BadInteger(body, "quantity", 0)

BadItemId(param) == param.t # "string" \/ param.s = ""

GoodUpdate(body) == body # Malformed /\ ~BadUpdate(body)

\* the line items a user has, none when the user has no cart
CartOf(store, userId) ==
    IF userId \in DOMAIN store THEN store[userId] ELSE << >>

\* C3: update(userId, productId, 0) on a cart that contains productId removes
\* the line item: list(userId) right afterwards returns no item with that
\* productId and a totalItems one less than before
C3_UpdateZeroRemoves ==
    [][ (/\ req'.method = "PUT"
         /\ GoodUpdate(req'.body)
         /\ req'.body.quantity.n = 0
         /\ Holds(carts, User(req'), Target(req')))
        => LET before == GetOutcome(carts, req'.userId).resp
               after == GetOutcome(carts', req'.userId).resp
           IN  /\ resp'.status = 200
               /\ before.status = 200 /\ after.status = 200
               /\ \A i \in 1..Len(after.body.items) :
                      after.body.items[i].productId # Target(req')
               /\ after.body.totalItems = before.body.totalItems - 1
      ]_vars

\* C3 witness: an update to quantity 0 has just removed one of two line items
C3_Witness ==
    /\ Succeeded(req, resp, {"PUT"})
    /\ req.body.quantity.n = 0
    /\ Len(CartOf(carts, User(req))) = 1

\* C4: update(userId, productId, q) with q > 0 on a cart that contains
\* productId sets that line item's quantity to exactly q and leaves its price,
\* its position and every other line item of the cart unchanged
C4_UpdateSetsQuantity ==
    [][ (/\ req'.method = "PUT"
         /\ GoodUpdate(req'.body)
         /\ req'.body.quantity.n > 0
         /\ Holds(carts, User(req'), Target(req')))
        => LET u == User(req')
           IN  /\ resp'.status = 200
               /\ u \in DOMAIN carts'
               /\ Len(carts'[u]) = Len(carts[u])
               /\ \A j \in 1..Len(carts[u]) :
                      IF carts[u][j].productId = Target(req')
                      THEN carts'[u][j] =
                             [productId |-> carts[u][j].productId,
                              quantity |-> req'.body.quantity.n,
                              price |-> carts[u][j].price]
                      ELSE carts'[u][j] = carts[u][j]
      ]_vars

\* C4 witness: an update has just set a quantity of 2 or more in a cart of two
\* line items
C4_Witness ==
    /\ Succeeded(req, resp, {"PUT"})
    /\ req.body.quantity.n >= 2
    /\ Len(CartOf(carts, User(req))) = 2

\* C5 as claimed: update and remove with schema-valid input answer 404
\* exactly when the user has no cart or the cart has no line item with the
\* given productId / itemId, and a 404 leaves the whole store unchanged
C5_NotFoundExactly ==
    [][ (\/ req'.method = "PUT" /\ GoodUpdate(req'.body)
         \/ req'.method = "DELETE" /\ ~BadItemId(req'.itemId))
        => /\ resp'.status = 404 <=> ~Holds(carts, User(req'), Target(req'))
           /\ resp'.status = 404 => carts' = carts
      ]_vars

\* C5 on the userIds the store object does not inherit: the claim holds there
C5_NotFoundExactlyOwnKeys ==
    [][ (/\ \/ req'.method = "PUT" /\ GoodUpdate(req'.body)
            \/ req'.method = "DELETE" /\ ~BadItemId(req'.itemId)
         /\ User(req') \notin ObjectPrototypeKeys)
        => /\ resp'.status = 404 <=> ~Holds(carts, User(req'), Target(req'))
           /\ resp'.status = 404 => carts' = carts
      ]_vars

\* C6: a request whose input violates its schema is answered 400 and leaves
\* the store unchanged; an invalid add for a user with no cart creates no cart
C6_InvalidInputRejected ==
    [][ (\/ req'.method = "POST" /\ BadAdd(req'.body)
         \/ req'.method = "PUT" /\ BadUpdate(req'.body)
         \/ req'.method = "DELETE" /\ BadItemId(req'.itemId))
        => /\ resp'.status = 400
           /\ carts' = carts
           /\ DOMAIN carts' = DOMAIN carts
      ]_vars

\* C6 witness: an add with a quantity below 1 has just been answered 400 for a
\* user who has no cart
C6_Witness ==
    /\ req.method = "POST"
    /\ BadInteger(req.body, "quantity", 1)
    /\ resp.status = 400
    /\ User(req) = "u1"
    /\ "u1" \notin DOMAIN carts

\* sum of price * quantity over the line items, from the last to the first
RECURSIVE SumOfLines(_)
SumOfLines(cart) ==
    IF cart = << >> THEN 0
    ELSE cart[Len(cart)].price * cart[Len(cart)].quantity
           + SumOfLines(SubSeq(cart, 1, Len(cart) - 1))

\* C7 as claimed: list(userId) returns the user's line items in cart order,
\* totalItems their number and totalPrice the sum of price * quantity; for a
\* user with no cart an empty sequence, 0 and 0
C7_ListTotals ==
    req.method = "GET" =>
        /\ resp.status = 200
        /\ resp.body.items = CartOf(carts, User(req))
        /\ resp.body.totalItems = Len(CartOf(carts, User(req)))
        /\ resp.body.totalPrice = SumOfLines(CartOf(carts, User(req)))

\* C7 on the userIds the store object does not inherit: the claim holds there
C7_ListTotalsOwnKeys ==
    (req.method = "GET" /\ User(req) \notin ObjectPrototypeKeys) =>
        /\ resp.status = 200
        /\ resp.body.items = CartOf(carts, User(req))
        /\ resp.body.totalItems = Len(CartOf(carts, User(req)))
        /\ resp.body.totalPrice = SumOfLines(CartOf(carts, User(req)))

\* C8 as claimed: for every userId string GET /cart answers 200 with an items
\* sequence and never 500, and a userId no add has succeeded for is treated
\* as having no cart
C8_ListNeverFails ==
    req.method = "GET" =>
        /\ resp.status # 500
        /\ resp.status = 200
        /\ User(req) \notin DOMAIN carts => resp.body.items = << >>

C10_LineItemsValid ==
    /\ \A u \in DOMAIN carts :
          \A i \in 1..Len(carts[u]) :
              /\ carts[u][i].productId # ""
              /\ carts[u][i].quantity \in Int
              /\ carts[u][i].quantity >= 1
              /\ carts[u][i].price >= 0
    /\ Succeeded(req, resp, {"POST", "PUT"}) =>
          /\ req.body.quantity.t = "number"
          /\ ~req.body.quantity.frac

\* C10 witness: an update to quantity 0 has just succeeded while both users
\* hold line items
C10_Witness ==
    /\ Succeeded(req, resp, {"PUT"})
    /\ req.body.quantity.n = 0
    /\ \A u \in {"default-user", "u1"} : Len(CartOf(carts, u)) >= 1

\* C11: on every endpoint a request with no userId behaves exactly like the
\* same request with userId = "default-user" (same response, same store), and
\* the other way round; an item added without a userId is in the cart that
\* list("default-user") returns
C11_NoUserIdIsDefaultUser ==
    [][ /\ (req'.method # "none" /\ req'.userId = Null) =>
              LET named == OutcomeOf(carts, [req' EXCEPT !.userId = Str("default-user")])
              IN  /\ resp' = named.resp
                  /\ carts' = named.store
        /\ (req'.method # "none" /\ req'.userId = Str("default-user")) =>
              LET bare == OutcomeOf(carts, [req' EXCEPT !.userId = Null])
              IN  /\ resp' = bare.resp
                  /\ carts' = bare.store
        /\ (req'.method = "POST" /\ req'.userId = Null /\ resp'.status = 200) =>
              LET list == GetOutcome(carts', Str("default-user")).resp
              IN  /\ list.status = 200
                  /\ \E i \in 1..Len(list.body.items) :
                         list.body.items[i].productId = req'.body.productId.s
                  /\ "default-user" \in DOMAIN carts'
                  /\ DOMAIN carts' \subseteq {"default-user", "u1"}
      ]_vars

\* C11 witness: a list without a userId has just returned two line items, in
\* a store that holds no cart but the one of "default-user"
C11_Witness ==
    /\ req.method = "GET" /\ req.userId = Null
    /\ resp.status = 200
    /\ Len(resp.body.items) = 2
    /\ DOMAIN carts = {"default-user"}

\* C12: a line item has no terminal state: after it was removed (by remove or
\* by update with quantity 0) a later add of the same product succeeds, and
\* the cart then holds that product once, with exactly the quantity and the
\* price of that add
C12_ReAddStartsFresh ==
    [][ /\ (/\ gone.on /\ ~gone.back
            /\ req'.method = "POST"
            /\ req'.body # Malformed /\ ~BadAdd(req'.body)
            /\ req'.userId \in {Str(gone.userId)}
            /\ req'.body.productId.s = gone.productId)
           => resp'.status = 200 /\ gone'.on /\ gone'.back
        /\ (gone'.on /\ gone'.back)
           => /\ gone'.userId \in DOMAIN carts'
              /\ Cardinality(Positions(carts'[gone'.userId], gone'.productId)) = 1
              /\ \A i \in Positions(carts'[gone'.userId], gone'.productId) :
                     /\ carts'[gone'.userId][i].quantity = gone'.quantity
                     /\ carts'[gone'.userId][i].price = gone'.price
      ]_vars

\* C12 witness: a product removed earlier has just been added again, at
\* another price than the removed line item had
C12_Witness ==
    /\ gone.on /\ gone.back
    /\ Succeeded(req, resp, {"POST"})
    /\ req.body.productId.s = gone.productId
    /\ gone.price # gone.oldPrice

\* the strings of an array with a separator between neighbours, built from
\* the last one backwards
RECURSIVE Joined(_, _)
Joined(a, separator) ==
    IF a = << >> THEN ""
    ELSE IF Len(a) = 1 THEN a[1]
    ELSE Joined(SubSeq(a, 1, Len(a) - 1), separator) \o separator \o a[Len(a)]

\* the books listed are the books of the dataset, one for one and in order,
\* with every field but genre unchanged, a string genre unchanged and an
\* array genre replaced by its strings with the separator between them
ListedWith(separator) ==
    /\ listed.status = 200
    /\ Len(listed.body) = Len(books)
    /\ \A i \in 1..Len(books) :
          /\ DOMAIN listed.body[i] = DOMAIN books[i]
          /\ listed.body[i].id = books[i].id
          /\ listed.body[i].title = books[i].title
          /\ listed.body[i].genre.t = "string"
          /\ listed.body[i].genre =
                IF books[i].genre.t = "array"
                THEN Str(Joined(books[i].genre.a, separator))
                ELSE books[i].genre

\* C13 as claimed: the genre of a book whose genre was a sequence is the
\* comma-join of that sequence (its strings with "," between them)
C13_GenreCommaJoined ==
    listed # NoResponse => ListedWith(",")

\* C13 amended: the genre of a book whose genre was a sequence is that
\* sequence joined with ", " (a comma and a space), in its original order; a
\* string genre and all other fields pass through unchanged, and the number
\* and order of the books are preserved
C13_GenreJoinedCommaSpace ==
    listed # NoResponse => ListedWith(", ")

\* C13 witness: two books have been listed, one with a genre array of two
\* entries and one with a string genre that holds a comma
C13_Witness ==
    /\ listed # NoResponse
    /\ Len(books) = 2
    /\ books[1].genre = Arr(<<"Fiction", "Drama">>)
    /\ books[2].genre = Str("Sci-Fi, Space")
    /\ listed.body[1].genre = Str("Fiction, Drama")

\* the slots whose handler run is over
Over == {slot \in DOMAIN slots : slots[slot].pc = "done"}

\* the stores that running the requests of the given slots one at a time, in
\* some order, leaves
RECURSIVE OneAtATime(_, _)
OneAtATime(store, todo) ==
    IF todo = {} THEN {store}
    ELSE UNION {OneAtATime(OutcomeOf(store, slots[slot].request).store,
                           todo \ {slot}) : slot \in todo}

\* C14: with several requests for one userId in flight at once, interleaving
\* at their awaits, the store is the one that the requests answered so far
\* leave when run one at a time in some order; two adds of the same new
\* product at once leave one line item, of quantity q1+q2
C14_Serializable ==
    /\ carts \in OneAtATime(round.base, Over)
    /\ \A i, j \in Over :
          (/\ i # j
           /\ slots[i].request.method = "POST" /\ slots[i].status = 200
           /\ slots[j].request.method = "POST" /\ slots[j].status = 200
           /\ slots[i].request.body.productId = slots[j].request.body.productId
           /\ ~Holds(round.base, "u1", slots[i].request.body.productId.s))
          => LET p == slots[i].request.body.productId.s
             IN  /\ Cardinality(Positions(carts["u1"], p)) = 1
                 /\ \A k \in Positions(carts["u1"], p) :
                        carts["u1"][k].quantity =
                            slots[i].request.body.quantity.n
                              + slots[j].request.body.quantity.n

\* C14 witness: two adds of the same new product, of different quantities,
\* were in flight at once and both have been answered
C14_Witness ==
    /\ round.overlap
    /\ Over = Slots
    /\ \A slot \in Slots :
          /\ slots[slot].request.method = "POST"
          /\ slots[slot].status = 200
          /\ slots[slot].request.body.productId = Str("b1")
    /\ slots[1].request.body.quantity # slots[2].request.body.quantity
    /\ ~Holds(round.base, "u1", "b1")

\* the userId a request is for, read off the request itself
Owner(request) ==
    IF request.userId \in {Null, Str("")} THEN "default-user"
    ELSE request.userId.s

\* C15: every request changes at most the cart of its own (defaulted) userId:
\* the carts of all other users stay as they are, none appears and none goes;
\* list changes nothing at all and creates no cart
C15_OnlyOwnCartChanges ==
    [][ req'.method # "none" =>
          /\ \A u \in (DOMAIN carts \cup DOMAIN carts') \ {Owner(req')} :
                /\ u \in DOMAIN carts
                /\ u \in DOMAIN carts'
                /\ carts'[u] = carts[u]
          /\ req'.method = "GET" =>
                /\ DOMAIN carts' = DOMAIN carts
                /\ carts' = carts
      ]_vars

\* C15 witness: a list for a user who has no cart has just been answered, and
\* that user still has none, while another user holds two line items
C15_Witness ==
    /\ req.method = "GET" /\ req.userId = Str("u1")
    /\ resp.status = 200
    /\ "u1" \notin DOMAIN carts
    /\ Len(CartOf(carts, "default-user")) = 2

\* C16: a cart appears only by a successful add for its userId, which always
\* leaves one, and is never destroyed afterwards; on a cart emptied of its
\* last line item update and remove fail with "Item not found in cart", never
\* "Cart not found", and list returns an empty sequence
C16_CartNeverDestroyed ==
    [][ /\ \A u \in DOMAIN carts : u \in DOMAIN carts'
        /\ \A u \in DOMAIN carts' \ DOMAIN carts :
              /\ req'.method = "POST" /\ resp'.status = 200
              /\ Owner(req') = u
        /\ (req'.method = "POST" /\ resp'.status = 200) =>
              Owner(req') \in DOMAIN carts'
        /\ (/\ \/ req'.method = "PUT" /\ GoodUpdate(req'.body)
               \/ req'.method = "DELETE" /\ ~BadItemId(req'.itemId)
            /\ Owner(req') \in DOMAIN carts
            /\ carts[Owner(req')] = << >>)
           => /\ resp'.status = 404
              /\ resp'.body.error = "Item not found in cart"
        /\ (/\ req'.method = "GET"
            /\ Owner(req') \in DOMAIN carts
            /\ carts[Owner(req')] = << >>)
           => /\ resp'.status = 200
              /\ resp'.body.items = << >>
      ]_vars

\* C16 witness: a remove on a cart that exists but holds nothing has just been
\* answered "Item not found in cart"
C16_Witness ==
    /\ req.method = "DELETE"
    /\ resp.status = 404
    /\ resp.body.error = "Item not found in cart"
    /\ Owner(req) \in DOMAIN carts
    /\ carts[Owner(req)] = << >>

\* C17: validation comes before the existence checks: an update or remove
\* whose input violates its schema is answered 400 even when the user has no
\* cart or the item is absent, and 404 is answered to schema-valid input only
C17_ValidationFirst ==
    [][ /\ (\/ req'.method = "PUT" /\ BadUpdate(req'.body)
            \/ req'.method = "DELETE" /\ BadItemId(req'.itemId))
           => resp'.status = 400
        /\ (req'.method = "PUT" /\ resp'.status = 404) => GoodUpdate(req'.body)
        /\ (req'.method = "DELETE" /\ resp'.status = 404) => ~BadItemId(req'.itemId)
      ]_vars

\* C17 witness: an update with a negative quantity has just been answered 400
\* for a user who has no cart
C17_Witness ==
    /\ req.method = "PUT"
    /\ req.body.t = "object"
    /\ ~BadString(req.body, "productId")
    /\ BadInteger(req.body, "quantity", 0)
    /\ resp.status = 400
    /\ Owner(req) \notin DOMAIN carts

\* the productIds of a cart, in cart order
ProductsOf(cart) == [i \in 1..Len(cart) |-> cart[i].productId]

====
